---- MODULE Spec2Model ----
(***************************************************************************)
(* Layout and constraint engine of usd_layout_creator:                     *)
(*   - the rear panel solver (LLM_chain/retrieval_utils.py),               *)
(*   - the AssemblyModel and the cabinet sequencer / top placement         *)
(*     (USD_modules/models.py, USD_modules/usd_scene_creator.py),          *)
(*   - the side-by-side merge with a scaled top (USD_modules/usd_utils.py).*)
(*   - the panel rows and the panel grid (models.py, usd_utils.py),       *)
(*   - create_assembly (USD_modules/cabinet_parser.py),                    *)
(*   - the metadata written by the pipeline (LLM_chain/main.py).           *)
(*                                                                         *)
(* Lengths of the solver are integer millimetres, as in main.py.  Lengths  *)
(* of the USD modules are Python floats in metres; they are counted here   *)
(* in ticks of 1/8 mm, and the inputs are drawn so that every halving the  *)
(* code performs is exact, as it is in binary floating point.  Quotients   *)
(* that are not halvings are kept as fractions [num, den].                 *)
(***************************************************************************)
EXTENDS Integers, Sequences, FiniteSets, TLC

VARIABLES
    \* calculate_rear_panels_constrained
    L_cabinet,            \* the argument, millimetres
    best_config,          \* the returned value
    solver_pc,            \* "call" | "returned"
    \* AssemblyModel, apply_transformation, sequence_cabinets
    cabinets,             \* assembly.cabinets.cabinets: dimensions of each
    workbench_top,        \* assembly.workbench_top.dimensions
    assembly_prim,        \* the stage has /WorkbenchAssembly
    cabinet_prims,        \* the indices i whose Cabinet_i prim is on the stage
    workbench_top_prim,   \* the stage has /WorkbenchAssembly/WorkbenchTop
    seq_i,                \* loop position of sequence_cabinets (1-based)
    current_x,
    previous_half_width,
    cabinet_xform,        \* per cabinet: whether translated, and where
    total_cabinet_width,
    top_xform,            \* whether the top was translated, and where
    asm_pc,
    \* merge_usda_files
    input_files,          \* what each input file turns out to be
    top_file,
    spacing,
    merge_i,              \* loop position (1-based)
    current_x_translation,
    prev_length,
    model_length,         \* a local that is unbound until first assigned
    max_height,
    max_width,
    model_xform,          \* per input file: whether translated, and where
    merge_total,          \* the local total_length
    top_outcome,
    length_scale,
    width_scale,
    top_model_xform,
    merge_pc,
    \* AssemblyModel: the fields of the top besides its dimensions, and the
    \* list returned by check_consistency
    top_meta,
    warnings,
    \* PanelRowModel, PanelMatrixModel
    panel_rows,           \* rows[r].panels[k].length
    matrix_length,        \* the value read from total_matrix_length
    panels_pc,
    \* rear_panel_matrix
    panel_files,          \* what each panel file turns out to be
    quantities,
    rows,
    grid_spacing,
    layers,               \* the layer count a caller passes, if any
    g_file,               \* position in zip(panel_files, quantities)
    g_row,
    g_col,
    g_current_x,
    g_current_y,
    panel_count,
    g_max_height,
    g_max_width,
    panel_xform,          \* the panels translated so far, in order
    grid_result,          \* the returned (total_width, total_height)
    grid_pc,
    \* create_assembly
    cabinet_paths,        \* what each cabinet file turns out to be
    parse_i,
    parsed_cabinets,      \* the local list, then CabinetAssembly.cabinets
    parse_warnings,
    parse_pc,
    \* main, steps 2, 4 and 6
    pipe_cabinets,        \* what becomes of each requested cabinet
    cabinet_filepaths,
    pipe_i,               \* position of width_cabinet in its input
    cabinet_widths,
    panels_config,
    metadata,
    pipe_pc

solver_vars == <<L_cabinet, best_config, solver_pc>>

asm_vars == <<cabinets, workbench_top, assembly_prim, cabinet_prims,
              workbench_top_prim, seq_i, current_x, previous_half_width,
              cabinet_xform, total_cabinet_width, top_xform, asm_pc>>

merge_vars == <<input_files, top_file, spacing, merge_i,
                current_x_translation, prev_length, model_length, max_height,
                max_width, model_xform, merge_total, top_outcome,
                length_scale, width_scale, top_model_xform, merge_pc>>

val_vars == <<top_meta, warnings>>

panel_vars == <<panel_rows, matrix_length, panels_pc>>

grid_vars == <<panel_files, quantities, rows, grid_spacing, layers, g_file,
               g_row, g_col, g_current_x, g_current_y, panel_count,
               g_max_height, g_max_width, panel_xform, grid_result, grid_pc>>

parse_vars == <<cabinet_paths, parse_i, parsed_cabinets, parse_warnings,
                parse_pc>>

pipe_vars == <<pipe_cabinets, cabinet_filepaths, pipe_i, cabinet_widths,
               panels_config, metadata, pipe_pc>>

vars == <<solver_vars, asm_vars, merge_vars, val_vars, panel_vars, grid_vars,
          parse_vars, pipe_vars>>

not_pipe_vars == <<solver_vars, asm_vars, merge_vars, val_vars, panel_vars,
                   grid_vars, parse_vars>>

not_solver_vars == <<asm_vars, merge_vars, val_vars, panel_vars, grid_vars,
                     parse_vars, pipe_vars>>
not_asm_vars == <<solver_vars, merge_vars, val_vars, panel_vars, grid_vars,
                  parse_vars, pipe_vars>>
not_merge_vars == <<solver_vars, asm_vars, val_vars, panel_vars, grid_vars,
                    parse_vars, pipe_vars>>
not_model_vars == <<solver_vars, merge_vars, panel_vars, grid_vars,
                    parse_vars, pipe_vars>>
not_panel_vars == <<solver_vars, asm_vars, merge_vars, val_vars, grid_vars,
                    parse_vars, pipe_vars>>
not_grid_vars == <<solver_vars, asm_vars, merge_vars, val_vars, panel_vars,
                   parse_vars, pipe_vars>>
not_parse_vars == <<solver_vars, asm_vars, merge_vars, val_vars, panel_vars,
                    grid_vars, pipe_vars>>

----------------------------------------------------------------------------
(* Bounds of the model *)

MaxL == 3100
MaxCabinets == 3
MaxFiles == 3
MaxRows == 3
MaxPanels == 2
MaxPanelFiles == 2
MaxQuantity == 2
MaxGridRows == 2
MaxPaths == 3
MaxLayers == 2
MaxRequested == 3

\* Python's None, as a value of the same shape as a configuration
NoneConfig == [none |-> TRUE, a |-> 0, b |-> 0, spacing |-> 0]

\* the metadata of the assembly data model before step 6 of main
NoMetadata == [written |-> FALSE, W_tot_cabinets |-> 0, spacing |-> 0,
               number_of_cabinets |-> 0]

\* the translate op of a prim: whether it was set, and its value
NoXform == [placed |-> FALSE, t |-> <<0, 0, 0>>]
Xform(x, y, z) == [placed |-> TRUE, t |-> <<x, y, z>>]

\* a Python local before and after its first assignment
Unbound == [bound |-> FALSE, v |-> 0]
Bound(x) == [bound |-> TRUE, v |-> x]

\* The three parts of the engine are exercised separately; a part that is
\* not exercised stays idle.
SolverIdle ==
    /\ L_cabinet = 0
    /\ best_config = NoneConfig
    /\ solver_pc = "idle"

AsmIdle ==
    /\ cabinets = <<>>
    /\ workbench_top = <<0, 0, 0>>
    /\ assembly_prim = FALSE
    /\ cabinet_prims = {}
    /\ workbench_top_prim = FALSE
    /\ seq_i = 0
    /\ current_x = 0
    /\ previous_half_width = 0
    /\ cabinet_xform = <<>>
    /\ total_cabinet_width = 0
    /\ top_xform = NoXform
    /\ asm_pc = "idle"

MergeIdle ==
    /\ input_files = <<>>
    /\ top_file = [kind |-> "absent", length |-> 0, width |-> 0, height |-> 0]
    /\ spacing = 0
    /\ merge_i = 0
    /\ current_x_translation = 0
    /\ prev_length = 0
    /\ model_length = Unbound
    /\ max_height = 0
    /\ max_width = 0
    /\ model_xform = <<>>
    /\ merge_total = 0
    /\ top_outcome = "pending"
    /\ length_scale = [num |-> 0, den |-> 1]
    /\ width_scale = [num |-> 0, den |-> 1]
    /\ top_model_xform = NoXform
    /\ merge_pc = "idle"

\* name, asset_path, function, type, color, material of a WorkbenchTopModel
TopMeta(n) == [name |-> n, asset_path |-> "assets/components/top.usda",
               function |-> "Work surface", type |-> "Workbench Top",
               color |-> <<1, 1, 1>>, material |-> "Wood"]

ValIdle ==
    /\ top_meta = TopMeta("workbench_top_1")
    /\ warnings = <<>>

PanelsIdle ==
    /\ panel_rows = <<>>
    /\ matrix_length = 0
    /\ panels_pc = "idle"

GridIdle ==
    /\ panel_files = <<>>
    /\ quantities = <<>>
    /\ rows = 1
    /\ grid_spacing = 0
    /\ layers = [passed |-> FALSE, n |-> 1]
    /\ g_file = 0
    /\ g_row = 0
    /\ g_col = 0
    /\ g_current_x = 0
    /\ g_current_y = 0
    /\ panel_count = 0
    /\ g_max_height = 0
    /\ g_max_width = 0
    /\ panel_xform = <<>>
    /\ grid_result = <<0, 0>>
    /\ grid_pc = "idle"

ParseIdle ==
    /\ cabinet_paths = <<>>
    /\ parse_i = 0
    /\ parsed_cabinets = <<>>
    /\ parse_warnings = <<>>
    /\ parse_pc = "idle"

\* the parts added to the three above
PipeIdle ==
    /\ pipe_cabinets = <<>>
    /\ cabinet_filepaths = <<>>
    /\ pipe_i = 0
    /\ cabinet_widths = <<>>
    /\ panels_config = NoneConfig
    /\ metadata = NoMetadata
    /\ pipe_pc = "idle"

OthersIdle == ValIdle /\ PanelsIdle /\ GridIdle /\ ParseIdle /\ PipeIdle

----------------------------------------------------------------------------
(* Lengths of the USD modules, in ticks *)

Half(x) == x \div 2

Abs(x) == IF x < 0 THEN -x ELSE x

Max(x, y) == IF x >= y THEN x ELSE y

\* cabinet dimensions (x, y, z) the assemblies are built from
Widths == {0, 8, 16}
Heights == {8, 16}
Depths == {8}
CabinetDims == Widths \X Heights \X Depths

\* workbench top dimensions handed to the AssemblyModel constructor
TopWidths == {-8, 0, 8, 14, 24}
TopHeights == {2}
TopDepths == {4}
TopDims == TopWidths \X TopHeights \X TopDepths

CabinetLists == UNION {[1..n -> CabinetDims] : n \in 0..MaxCabinets}

----------------------------------------------------------------------------
(* models.py : CabinetAssembly, AssemblyModel *)

RECURSIVE sum_widths(_)
sum_widths(cabs) ==
    IF cabs = <<>> THEN 0
    ELSE cabs[1][1] + sum_widths(Tail(cabs))

\* CabinetAssembly.total_length
total_length_after_first(cabs) ==
    IF cabs = <<>> THEN 0 ELSE sum_widths(Tail(cabs))
total_length(cabs) == sum_widths(cabs)

\* 0.001 m, the threshold of adjust_workbench_top
Tolerance == 8

\* AssemblyModel.adjust_workbench_top: the dimensions of the top afterwards
adjust_workbench_top_signed(cabs, top) ==
    IF total_length(cabs) - top[1] > Tolerance
    THEN <<total_length(cabs), top[2], top[3]>>
    ELSE top
adjust_workbench_top(cabs, top) ==
    IF Abs(total_length(cabs) - top[1]) > Tolerance
    THEN <<total_length(cabs), top[2], top[3]>>
    ELSE top

\* lines 121-129: the other fields of the WorkbenchTopModel afterwards
adjusted_top_fields_unnamed(cabs, top, meta) ==
    IF Abs(total_length(cabs) - top[1]) > Tolerance
    THEN [name |-> "", asset_path |-> meta.asset_path,
          function |-> meta.function, type |-> meta.type,
          color |-> meta.color, material |-> meta.material]
    ELSE meta
adjusted_top_fields(cabs, top, meta) ==
    IF Abs(total_length(cabs) - top[1]) > Tolerance
    THEN [name |-> meta.name, asset_path |-> meta.asset_path,
          function |-> meta.function, type |-> meta.type,
          color |-> meta.color, material |-> meta.material]
    ELSE meta

----------------------------------------------------------------------------
(* usd_scene_creator.py : sequence_cabinets, apply_transformation *)

\* lines 115-120; i is the 1-based position, Python's i + 1
x_position_no_previous(i, cur_x, prev_half, cabinet_width) ==
    IF i = 1 THEN 0 ELSE cur_x + Half(cabinet_width)
x_position_no_first(i, cur_x, prev_half, cabinet_width) ==
    cur_x + prev_half + Half(cabinet_width)
x_position(i, cur_x, prev_half, cabinet_width) ==
    IF i = 1 THEN 0 ELSE cur_x + prev_half + Half(cabinet_width)

\* line 141
next_previous_half_width_full(cabinet_width) == cabinet_width
next_previous_half_width(cabinet_width) == Half(cabinet_width)

\* line 146
total_width_of_centre(cur_x, prev_half) == cur_x
total_width(cur_x, prev_half) == cur_x + prev_half

\* line 187
top_translation(total_w, top) ==
    <<Half(total_w) - Half(top[1]), 0, Half(top[3])>>

\* the arguments of AssemblyModel(...), before the after-validator has run
AsmInit ==
    /\ cabinets \in CabinetLists
    /\ workbench_top \in TopDims
    /\ assembly_prim = FALSE
    /\ cabinet_prims = {}
    /\ workbench_top_prim = FALSE
    /\ seq_i = 0
    /\ current_x = 0
    /\ previous_half_width = 0
    /\ cabinet_xform = <<>>
    /\ total_cabinet_width = 0
    /\ top_xform = NoXform
    /\ asm_pc = "new"
    /\ SolverIdle
    /\ MergeIdle
    /\ OthersIdle

stage_vars == <<assembly_prim, cabinet_prims, workbench_top_prim>>
loop_vars == <<seq_i, current_x, previous_half_width, cabinet_xform>>

\* AssemblyModel.validate_and_adjust_assembly (the after-validator)
validate_and_adjust_assembly ==
    /\ asm_pc = "new"
    /\ workbench_top' = adjust_workbench_top(cabinets, workbench_top)
    /\ top_meta' = adjusted_top_fields(cabinets, workbench_top, top_meta)
    /\ asm_pc' = "model"
    /\ UNCHANGED <<cabinets, stage_vars, loop_vars, total_cabinet_width,
                   top_xform, warnings>>
    /\ UNCHANGED not_model_vars

\* apply_transformation, lines 158-169, on a stage without the root prim
apply_transformation_no_assembly ==
    /\ asm_pc = "model"
    /\ assembly_prim' = FALSE
    /\ cabinet_prims' = {}
    /\ workbench_top_prim' = FALSE
    /\ asm_pc' = "RuntimeError"
    /\ UNCHANGED <<cabinets, workbench_top, loop_vars, total_cabinet_width,
                   top_xform>>
    /\ UNCHANGED not_asm_vars

\* apply_transformation, lines 158-172, and sequence_cabinets, lines 100-101
apply_transformation_open ==
    /\ asm_pc = "model"
    /\ assembly_prim' = TRUE
    /\ cabinet_prims' \in SUBSET (1..Len(cabinets))
    /\ workbench_top_prim' \in BOOLEAN
    /\ seq_i' = 1
    /\ current_x' = 0
    /\ previous_half_width' = 0
    /\ cabinet_xform' = [i \in 1..Len(cabinets) |-> NoXform]
    /\ asm_pc' = "sequence"
    /\ UNCHANGED <<cabinets, workbench_top, total_cabinet_width, top_xform>>
    /\ UNCHANGED not_asm_vars

\* sequence_cabinets, lines 103-109: the prim is not on the stage
sequence_cabinets_skip ==
    /\ asm_pc = "sequence"
    /\ seq_i <= Len(cabinets)
    /\ seq_i \notin cabinet_prims
    /\ seq_i' = seq_i + 1
    /\ UNCHANGED <<current_x, previous_half_width, cabinet_xform>>
    /\ UNCHANGED <<cabinets, workbench_top, stage_vars, total_cabinet_width,
                   top_xform, asm_pc>>
    /\ UNCHANGED not_asm_vars

\* sequence_cabinets, lines 103-143: the prim is found and translated
sequence_cabinets_place ==
    /\ asm_pc = "sequence"
    /\ seq_i <= Len(cabinets)
    /\ seq_i \in cabinet_prims
    /\ LET cabinet_width == cabinets[seq_i][1]
           x == x_position(seq_i, current_x, previous_half_width,
                           cabinet_width)
       IN  /\ cabinet_xform' =
                 [cabinet_xform EXCEPT ![seq_i] = Xform(x, 0, 0)]
           /\ current_x' = x
           /\ previous_half_width' = next_previous_half_width(cabinet_width)
    /\ seq_i' = seq_i + 1
    /\ UNCHANGED <<cabinets, workbench_top, stage_vars, total_cabinet_width,
                   top_xform, asm_pc>>
    /\ UNCHANGED not_asm_vars

\* sequence_cabinets, lines 145-147, back in apply_transformation line 172
sequence_cabinets_return ==
    /\ asm_pc = "sequence"
    /\ seq_i > Len(cabinets)
    /\ total_cabinet_width' = total_width(current_x, previous_half_width)
    /\ asm_pc' = "top"
    /\ UNCHANGED <<cabinets, workbench_top, stage_vars, loop_vars, top_xform>>
    /\ UNCHANGED not_asm_vars

\* apply_transformation, lines 174-200, the top prim is on the stage
apply_transformation_top ==
    /\ asm_pc = "top"
    /\ workbench_top_prim
    /\ LET t == top_translation(total_cabinet_width, workbench_top)
       IN  top_xform' = Xform(t[1], t[2], t[3])
    /\ asm_pc' = "saved"
    /\ UNCHANGED <<cabinets, workbench_top, stage_vars, loop_vars,
                   total_cabinet_width>>
    /\ UNCHANGED not_asm_vars

\* apply_transformation, lines 174-200, without a top prim
apply_transformation_no_top ==
    /\ asm_pc = "top"
    /\ ~workbench_top_prim
    /\ asm_pc' = "saved"
    /\ UNCHANGED <<cabinets, workbench_top, stage_vars, loop_vars,
                   total_cabinet_width, top_xform>>
    /\ UNCHANGED not_asm_vars

AsmNext ==
    \/ validate_and_adjust_assembly
    \/ apply_transformation_no_assembly
    \/ apply_transformation_open
    \/ sequence_cabinets_skip
    \/ sequence_cabinets_place
    \/ sequence_cabinets_return
    \/ apply_transformation_top
    \/ apply_transformation_no_top

SpecAssembly == AsmInit /\ [][AsmNext]_vars

----------------------------------------------------------------------------
(* models.py : check_consistency of CabinetAssembly and AssemblyModel *)

\* the assemblies the consistency checks are exercised on
CheckedWidths == {8, 16}
CheckedHeights == {8, 16}
CheckedDepths == {8, 16}
CheckedCabinetDims == CheckedWidths \X CheckedHeights \X CheckedDepths
CheckedCabinetLists ==
    UNION {[1..n -> CheckedCabinetDims] : n \in 0..MaxCabinets}
TopNames == {"workbench_top_1", "workbench_top_3"}

\* x * 1000 counts millimetres, and one millimetre is 0.001 m
MillimetreTicks == Tolerance

\* Python's round() of n / d: to the nearest integer, a tie to the even one
round_half_up(n, d) ==
    LET q == n \div d
        r == n % d
    IN  IF 2 * r < d THEN q ELSE q + 1
round_half_even(n, d) ==
    LET q == n \div d
        r == n % d
    IN  IF 2 * r < d THEN q
        ELSE IF 2 * r > d THEN q + 1
        ELSE IF q % 2 = 0 THEN q ELSE q + 1

\* round(x * 1000), lines 135-136
round_mm(x) == round_half_even(x, MillimetreTicks)

HeightWarning(i, value, reference) ==
    [kind |-> "height", index |-> i, value |-> value,
     reference |-> reference]
DepthWarning(i, value, reference) ==
    [kind |-> "depth", index |-> i, value |-> value,
     reference |-> reference]
TopLengthWarning(workbench_length_mm, cabinet_length_mm) ==
    [kind |-> "top_length", index |-> 0, value |-> workbench_length_mm,
     reference |-> cabinet_length_mm]

\* lines 90-92: what the cabinet at position k is compared with
reference_height_neighbour(cabs, k) == cabs[k - 1][2]
reference_height(cabs, k) == cabs[1][2]

reference_depth(cabs, k) == cabs[1][3]

\* the i of enumerate(self.cabinets[1:], start=1) for the cabinet at the
\* 1-based position k of the list
enumerate_index(k) == k - 1

\* lines 94-98, from the position k on
RECURSIVE cabinet_warnings_from(_, _)
cabinet_warnings_from(cabs, k) ==
    IF k > Len(cabs) THEN <<>>
    ELSE (IF cabs[k][2] # reference_height(cabs, k)
          THEN <<HeightWarning(enumerate_index(k), cabs[k][2],
                               reference_height(cabs, k))>>
          ELSE <<>>)
         \o
         (IF cabs[k][3] # reference_depth(cabs, k)
          THEN <<DepthWarning(enumerate_index(k), cabs[k][3],
                              reference_depth(cabs, k))>>
          ELSE <<>>)
         \o cabinet_warnings_from(cabs, k + 1)

\* CabinetAssembly.check_consistency
cabinet_check_consistency(cabs) ==
    IF cabs = <<>> THEN <<>> ELSE cabinet_warnings_from(cabs, 2)

\* lines 135-140: the warning of the top, if any
top_length_warnings(cabs, top) ==
    IF round_mm(total_length(cabs)) # round_mm(top[1])
    THEN <<TopLengthWarning(round_mm(top[1]), round_mm(total_length(cabs)))>>
    ELSE <<>>

\* the arguments of AssemblyModel(...), before the after-validator has run
ValidateInit ==
    /\ cabinets \in CheckedCabinetLists
    /\ workbench_top \in TopDims
    /\ top_meta \in {TopMeta(n) : n \in TopNames}
    /\ warnings = <<>>
    /\ assembly_prim = FALSE
    /\ cabinet_prims = {}
    /\ workbench_top_prim = FALSE
    /\ seq_i = 0
    /\ current_x = 0
    /\ previous_half_width = 0
    /\ cabinet_xform = <<>>
    /\ total_cabinet_width = 0
    /\ top_xform = NoXform
    /\ asm_pc = "new"
    /\ SolverIdle
    /\ MergeIdle
    /\ PanelsIdle
    /\ GridIdle
    /\ ParseIdle
    /\ PipeIdle

\* a caller assigns the dimensions of the top of a constructed model; the
\* models are not frozen and assignments are not validated
assign_workbench_top ==
    /\ asm_pc = "model"
    /\ workbench_top' \in TopDims
    /\ asm_pc' = "assigned"
    /\ UNCHANGED <<cabinets, stage_vars, loop_vars, total_cabinet_width,
                   top_xform>>
    /\ UNCHANGED not_asm_vars

\* AssemblyModel.check_consistency
check_consistency ==
    /\ asm_pc \in {"model", "assigned"}
    /\ IF top_length_warnings(cabinets, workbench_top) # <<>>
       THEN /\ workbench_top' = adjust_workbench_top(cabinets, workbench_top)
            /\ top_meta' = adjusted_top_fields(cabinets, workbench_top,
                                               top_meta)
       ELSE UNCHANGED <<workbench_top, top_meta>>
    /\ warnings' = top_length_warnings(cabinets, workbench_top)
                       \o cabinet_check_consistency(cabinets)
    /\ asm_pc' = "checked"
    /\ UNCHANGED <<cabinets, stage_vars, loop_vars, total_cabinet_width,
                   top_xform>>
    /\ UNCHANGED not_model_vars

ValidateNext ==
    \/ validate_and_adjust_assembly
    \/ assign_workbench_top
    \/ check_consistency

SpecValidate == ValidateInit /\ [][ValidateNext]_vars

----------------------------------------------------------------------------
(* models.py : PanelRowModel, PanelMatrixModel *)

\* PanelModel.length, millimetres
PanelLengths == {750, 1000}

PanelRows == UNION {[1..n -> PanelLengths] : n \in 0..MaxPanels}
PanelMatrices == UNION {[1..n -> PanelRows] : n \in 0..MaxRows}

\* PanelRowModel.total_row_length: sum(panel.length for panel in self.panels)
RECURSIVE total_row_length(_)
total_row_length(panels) ==
    IF panels = <<>> THEN 0
    ELSE panels[1] + total_row_length(Tail(panels))

\* max(...) over a non-empty list of rows
RECURSIVE min_row_length(_)
min_row_length(rs) ==
    IF Len(rs) = 1 THEN total_row_length(rs[1])
    ELSE LET m == min_row_length(Tail(rs))
             x == total_row_length(rs[1])
         IN  IF x <= m THEN x ELSE m
RECURSIVE max_row_length(_)
max_row_length(rs) ==
    IF Len(rs) = 1 THEN total_row_length(rs[1])
    ELSE Max(total_row_length(rs[1]), max_row_length(Tail(rs)))

\* PanelMatrixModel.total_matrix_length
total_matrix_length_of_shortest(rs) ==
    IF rs = <<>> THEN 0 ELSE min_row_length(rs)
total_matrix_length(rs) ==
    IF rs = <<>> THEN 0 ELSE max_row_length(rs)

PanelsInit ==
    /\ panel_rows \in PanelMatrices
    /\ matrix_length = 0
    /\ panels_pc = "built"
    /\ SolverIdle
    /\ AsmIdle
    /\ MergeIdle
    /\ ValIdle
    /\ GridIdle
    /\ ParseIdle
    /\ PipeIdle

\* the property total_matrix_length is read
read_total_matrix_length ==
    /\ panels_pc = "built"
    /\ matrix_length' = total_matrix_length(panel_rows)
    /\ panels_pc' = "read"
    /\ UNCHANGED panel_rows
    /\ UNCHANGED not_panel_vars

PanelsNext == read_total_matrix_length

SpecPanels == PanelsInit /\ [][PanelsNext]_vars

----------------------------------------------------------------------------
(* usd_utils.py : rear_panel_matrix *)

\* What a panel file turns out to be when the loop reaches it:
\*   "absent"      os.path.exists is false
\*   "raises"      an exception inside the try block (stage cannot be opened,
\*                 no extent authored)
\*   "no_geometry" no Boundable prim in the referenced stage
\*   "ok"          a Boundable whose extent starts at 0 on X and Y
PanelWidths == {6000, 8000}
PanelHeights == {4000}
PanelFile(k, w, h) == [kind |-> k, width |-> w, height |-> h]
PanelFileSet ==
    {PanelFile(k, 0, 0) : k \in {"absent", "raises", "no_geometry"}}
        \cup {PanelFile("ok", w, h) : w \in PanelWidths, h \in PanelHeights}
PanelFileLists == UNION {[1..n -> PanelFileSet] : n \in 0..MaxPanelFiles}
QuantityLists == UNION {[1..n -> 0..MaxQuantity] : n \in 0..MaxPanelFiles}
GridSpacings == {0, 80}

\* rear_panel_matrix has the parameters (output_file, panel_files,
\* quantities, rows, spacing); demo() of run_demo.py passes a layer count
NoLayers == [passed |-> FALSE, n |-> 1]
Layers(n) == [passed |-> TRUE, n |-> n]
LayerArguments == {NoLayers} \cup {Layers(n) : n \in 1..MaxLayers}

\* zip(panel_files, quantities) stops at the shorter list
zip_length == IF Len(panel_files) <= Len(quantities)
              THEN Len(panel_files) ELSE Len(quantities)

\* the translate op set on a panel prim, with what identifies the panel
PanelXform(count, file, row, col, w) ==
    [path |-> count, file |-> file, row |-> row, col |-> col,
     x |-> 2 * g_current_x, y |-> g_current_y, z |-> 0, width |-> w]

\* current_y = row * (max_width + spacing)
row_y_own_width(row) ==
    row * (panel_files[g_file].width + grid_spacing)
row_y(row) == row * (g_max_width + grid_spacing)

\* total_height = (rows - 1) * (max_width + spacing) if rows > 1 else 0
total_height == IF rows > 1 THEN (rows - 1) * (g_max_width + grid_spacing)
                ELSE 0

\* return stage, current_x - spacing, total_height
total_width_returned == g_current_x - grid_spacing

GridInit ==
    /\ panel_files \in PanelFileLists
    /\ quantities \in QuantityLists
    /\ rows \in 1..MaxGridRows
    /\ grid_spacing \in GridSpacings
    /\ layers \in LayerArguments
    /\ g_file = 0
    /\ g_row = 0
    /\ g_col = 0
    /\ g_current_x = 0
    /\ g_current_y = 0
    /\ panel_count = 0
    /\ g_max_height = 0
    /\ g_max_width = 0
    /\ panel_xform = <<>>
    /\ grid_result = <<0, 0>>
    /\ grid_pc = "call"
    /\ SolverIdle
    /\ AsmIdle
    /\ MergeIdle
    /\ ValIdle
    /\ PanelsIdle
    /\ ParseIdle
    /\ PipeIdle

grid_inputs == <<panel_files, quantities, rows, grid_spacing, layers>>

\* the call binds its arguments: stage created, counters at 0.0
grid_call ==
    /\ grid_pc = "call"
    /\ ~layers.passed
    /\ grid_pc' = "file"
    /\ UNCHANGED <<grid_inputs, g_file, g_row, g_col, g_current_x,
                   g_current_y, panel_count, g_max_height, g_max_width,
                   panel_xform, grid_result>>
    /\ UNCHANGED not_grid_vars

\* a sixth argument has no parameter to bind to: TypeError at the call
grid_type_error ==
    /\ grid_pc = "call"
    /\ layers.passed
    /\ grid_pc' = "raised"
    /\ UNCHANGED <<grid_inputs, g_file, g_row, g_col, g_current_x,
                   g_current_y, panel_count, g_max_height, g_max_width,
                   panel_xform, grid_result>>
    /\ UNCHANGED not_grid_vars

\* for panel_file, quantity in zip(...): the file does not exist, continue
grid_skip_absent ==
    /\ grid_pc = "file"
    /\ g_file < zip_length
    /\ panel_files[g_file + 1].kind = "absent"
    /\ g_file' = g_file + 1
    /\ UNCHANGED <<grid_inputs, g_row, g_col, g_current_x, g_current_y,
                   panel_count, g_max_height, g_max_width, panel_xform,
                   grid_result, grid_pc>>
    /\ UNCHANGED not_grid_vars

\* the file exists: enter "for row in range(rows)"
grid_enter_file ==
    /\ grid_pc = "file"
    /\ g_file < zip_length
    /\ panel_files[g_file + 1].kind # "absent"
    /\ g_file' = g_file + 1
    /\ g_row' = 0
    /\ grid_pc' = "row"
    /\ UNCHANGED <<grid_inputs, g_col, g_current_x, g_current_y, panel_count,
                   g_max_height, g_max_width, panel_xform, grid_result>>
    /\ UNCHANGED not_grid_vars

\* head of a row: current_x = 0.0, current_y = row * (max_width + spacing)
grid_enter_row ==
    /\ grid_pc = "row"
    /\ g_row < rows
    /\ g_current_x' = 0
    /\ g_current_y' = row_y(g_row)
    /\ g_col' = 0
    /\ grid_pc' = "col"
    /\ UNCHANGED <<grid_inputs, g_file, g_row, panel_count, g_max_height,
                   g_max_width, panel_xform, grid_result>>
    /\ UNCHANGED not_grid_vars

\* range(rows) is exhausted: back to the loop over the files
grid_end_rows ==
    /\ grid_pc = "row"
    /\ g_row = rows
    /\ grid_pc' = "file"
    /\ UNCHANGED <<grid_inputs, g_file, g_row, g_col, g_current_x,
                   g_current_y, panel_count, g_max_height, g_max_width,
                   panel_xform, grid_result>>
    /\ UNCHANGED not_grid_vars

\* one column, geometry found: translate the prim and advance current_x
grid_place_panel ==
    /\ grid_pc = "col"
    /\ g_col < quantities[g_file]
    /\ panel_files[g_file].kind = "ok"
    /\ LET f == panel_files[g_file]
       IN  /\ g_max_height' = Max(g_max_height, f.height)
           /\ g_max_width' = Max(g_max_width, f.width)
           /\ panel_xform' = Append(panel_xform,
                  PanelXform(panel_count, g_file, g_row, g_col, f.width))
           /\ g_current_x' = g_current_x + f.width + grid_spacing
    /\ panel_count' = panel_count + 1
    /\ g_col' = g_col + 1
    /\ UNCHANGED <<grid_inputs, g_file, g_row, g_current_y, grid_result,
                   grid_pc>>
    /\ UNCHANGED not_grid_vars

\* one column, no Boundable prim: a warning, the prim keeps no translate op
grid_no_geometry ==
    /\ grid_pc = "col"
    /\ g_col < quantities[g_file]
    /\ panel_files[g_file].kind = "no_geometry"
    /\ panel_count' = panel_count + 1
    /\ g_col' = g_col + 1
    /\ UNCHANGED <<grid_inputs, g_file, g_row, g_current_x, g_current_y,
                   g_max_height, g_max_width, panel_xform, grid_result,
                   grid_pc>>
    /\ UNCHANGED not_grid_vars

\* one column, exception: "continue" skips panel_count += 1
grid_error ==
    /\ grid_pc = "col"
    /\ g_col < quantities[g_file]
    /\ panel_files[g_file].kind = "raises"
    /\ g_col' = g_col + 1
    /\ UNCHANGED <<grid_inputs, g_file, g_row, g_current_x, g_current_y,
                   panel_count, g_max_height, g_max_width, panel_xform,
                   grid_result, grid_pc>>
    /\ UNCHANGED not_grid_vars

\* range(quantity) is exhausted: next row
grid_end_cols ==
    /\ grid_pc = "col"
    /\ g_col >= quantities[g_file]
    /\ g_row' = g_row + 1
    /\ grid_pc' = "row"
    /\ UNCHANGED <<grid_inputs, g_file, g_col, g_current_x, g_current_y,
                   panel_count, g_max_height, g_max_width, panel_xform,
                   grid_result>>
    /\ UNCHANGED not_grid_vars

\* the loop over the files is exhausted: save and return
grid_return ==
    /\ grid_pc = "file"
    /\ g_file = zip_length
    /\ grid_result' = <<total_width_returned, total_height>>
    /\ grid_pc' = "returned"
    /\ UNCHANGED <<grid_inputs, g_file, g_row, g_col, g_current_x,
                   g_current_y, panel_count, g_max_height, g_max_width,
                   panel_xform>>
    /\ UNCHANGED not_grid_vars

GridNext ==
    \/ grid_call
    \/ grid_type_error
    \/ grid_skip_absent
    \/ grid_enter_file
    \/ grid_enter_row
    \/ grid_end_rows
    \/ grid_place_panel
    \/ grid_no_geometry
    \/ grid_error
    \/ grid_end_cols
    \/ grid_return

SpecGrid == GridInit /\ [][GridNext]_vars

----------------------------------------------------------------------------
(* cabinet_parser.py : extract_usd_properties, create_assembly *)

\* What extract_usd_properties does with a path:
\*   "ok"              returns a CabinetModel with these dimensions
\*   "stage_none"      "if not stage"         -> raise ValueError
\*   "no_default_prim" "if not root_prim"     -> raise ValueError
\*   "no_geometry"     "if not geometry_prim" -> raise ValueError
\*   "open_raises"     Usd.Stage.Open itself raises for a layer it cannot
\*                     open (Tf.ErrorException, a RuntimeError)
ValueErrorKinds == {"stage_none", "no_default_prim", "no_geometry"}
OtherErrorKinds == {"open_raises"}
CabinetPath(k, d) == [kind |-> k, dimensions |-> d]
CabinetPathSet ==
    {CabinetPath(k, <<0, 0, 0>>) : k \in ValueErrorKinds \cup OtherErrorKinds}
        \cup {CabinetPath("ok", d) : d \in CheckedCabinetDims}
CabinetPathLists == UNION {[1..n -> CabinetPathSet] : n \in 0..MaxPaths}

\* print(f"Error processing {path}: {e}")
ErrorProcessing(i) == [kind |-> "error", index |-> i, value |-> 0,
                       reference |-> 0]

ParseInit ==
    /\ cabinet_paths \in CabinetPathLists
    /\ parse_i = 0
    /\ parsed_cabinets = <<>>
    /\ parse_warnings = <<>>
    /\ parse_pc = "loop"
    /\ SolverIdle
    /\ AsmIdle
    /\ MergeIdle
    /\ ValIdle
    /\ PanelsIdle
    /\ GridIdle
    /\ PipeIdle

\* try: cabinet = extract_usd_properties(path); cabinets.append(cabinet)
extract_usd_properties_ok ==
    /\ parse_pc = "loop"
    /\ parse_i < Len(cabinet_paths)
    /\ cabinet_paths[parse_i + 1].kind = "ok"
    /\ parsed_cabinets' =
          Append(parsed_cabinets, cabinet_paths[parse_i + 1].dimensions)
    /\ parse_i' = parse_i + 1
    /\ UNCHANGED <<cabinet_paths, parse_warnings, parse_pc>>
    /\ UNCHANGED not_parse_vars

\* except ValueError as e: print(...), and the loop goes on
extract_usd_properties_value_error ==
    /\ parse_pc = "loop"
    /\ parse_i < Len(cabinet_paths)
    /\ cabinet_paths[parse_i + 1].kind \in ValueErrorKinds
    /\ parse_warnings' = Append(parse_warnings, ErrorProcessing(parse_i + 1))
    /\ parse_i' = parse_i + 1
    /\ UNCHANGED <<cabinet_paths, parsed_cabinets, parse_pc>>
    /\ UNCHANGED not_parse_vars

\* an exception that is no ValueError leaves create_assembly
extract_usd_properties_other_error ==
    /\ parse_pc = "loop"
    /\ parse_i < Len(cabinet_paths)
    /\ cabinet_paths[parse_i + 1].kind \in OtherErrorKinds
    /\ parse_pc' = "raised"
    /\ UNCHANGED <<cabinet_paths, parse_i, parsed_cabinets, parse_warnings>>
    /\ UNCHANGED not_parse_vars

\* assembly = CabinetAssembly(cabinets=cabinets); the warnings of
\* check_consistency are printed; return assembly
create_assembly_return ==
    /\ parse_pc = "loop"
    /\ parse_i = Len(cabinet_paths)
    /\ parse_warnings' =
          parse_warnings \o cabinet_check_consistency(parsed_cabinets)
    /\ parse_pc' = "returned"
    /\ UNCHANGED <<cabinet_paths, parse_i, parsed_cabinets>>
    /\ UNCHANGED not_parse_vars

ParseNext ==
    \/ extract_usd_properties_ok
    \/ extract_usd_properties_value_error
    \/ extract_usd_properties_other_error
    \/ create_assembly_return

SpecParse == ParseInit /\ [][ParseNext]_vars

----------------------------------------------------------------------------
(* usd_utils.py : merge_usda_files *)

\* what the loop finds for one input file
FileKinds == {"absent", "raises", "no_geometry", "ok"}
Lengths == {8, 16}
ModelWidths == {8}
ModelHeights == {8, 16}

InputFiles ==
    {[kind |-> k, length |-> 0, width |-> 0, height |-> 0] :
        k \in FileKinds \ {"ok"}}
    \cup
    {[kind |-> "ok", length |-> l, width |-> w, height |-> h] :
        l \in Lengths, w \in ModelWidths, h \in ModelHeights}

InputFileLists == UNION {[1..n -> InputFiles] : n \in 0..MaxFiles}

\* what the top step finds for the top file; a stored extent may have its
\* maximum below its minimum, which gives a negative length
TopLengths == {-8, 0, 8, 16}
TopModelWidths == {0, 8}
TopModelHeights == {2}

TopFiles ==
    {[kind |-> k, length |-> 0, width |-> 0, height |-> 0] :
        k \in {"absent", "no_geometry"}}
    \cup
    {[kind |-> "ok", length |-> l, width |-> w, height |-> h] :
        l \in TopLengths, w \in TopModelWidths, h \in TopModelHeights}

Spacings == {0, 2}

Fraction(n, d) == [num |-> n, den |-> d]

\* line 148
next_x_translation(cur, prev, len, sp) == cur + prev + len + sp

\* line 152
next_x_translation_no_geometry(cur, prev, sp) == cur + prev + sp

\* line 166
merge_total_length(cur, len) == cur + len

\* line 189
length_scale_of(total, sp, top_len) == Fraction(total - sp, top_len * 2)

\* line 190
width_scale_of(max_w, top_w) == Fraction(max_w, top_w)

\* line 195
merge_top_translation(total, sp, max_h, top_h) ==
    <<Half(total + sp), 0, max_h + top_h>>

MergeInit ==
    /\ input_files \in InputFileLists
    /\ top_file \in TopFiles
    /\ spacing \in Spacings
    /\ merge_i = 1
    /\ current_x_translation = 0
    /\ prev_length = 0
    /\ model_length = Unbound
    /\ max_height = 0
    /\ max_width = 0
    /\ model_xform = [i \in 1..Len(input_files) |-> NoXform]
    /\ merge_total = 0
    /\ top_outcome = "pending"
    /\ length_scale = Fraction(0, 1)
    /\ width_scale = Fraction(0, 1)
    /\ top_model_xform = NoXform
    /\ merge_pc = "loop"
    /\ SolverIdle
    /\ AsmIdle
    /\ OthersIdle

merge_loop_vars == <<merge_i, current_x_translation, prev_length,
                     model_length, max_height, max_width, model_xform>>
merge_top_vars == <<merge_total, top_outcome, length_scale, width_scale,
                    top_model_xform>>
merge_args == <<input_files, top_file, spacing>>

\* lines 117-120: the file does not exist
merge_skip_absent ==
    /\ merge_pc = "loop"
    /\ merge_i <= Len(input_files)
    /\ input_files[merge_i].kind = "absent"
    /\ merge_i' = merge_i + 1
    /\ UNCHANGED <<current_x_translation, prev_length, model_length,
                   max_height, max_width, model_xform>>
    /\ UNCHANGED <<merge_args, merge_top_vars, merge_pc>>
    /\ UNCHANGED not_merge_vars

\* lines 134-136, 154-156: opening the file or reading its extent raises
merge_bounds_raise ==
    /\ merge_pc = "loop"
    /\ merge_i <= Len(input_files)
    /\ input_files[merge_i].kind = "raises"
    /\ merge_i' = merge_i + 1
    /\ UNCHANGED <<current_x_translation, prev_length, model_length,
                   max_height, max_width, model_xform>>
    /\ UNCHANGED <<merge_args, merge_top_vars, merge_pc>>
    /\ UNCHANGED not_merge_vars

\* lines 139, 150-152, 158-161: no geometry prim, default spacing
merge_no_geometry ==
    /\ merge_pc = "loop"
    /\ merge_i <= Len(input_files)
    /\ input_files[merge_i].kind = "no_geometry"
    /\ LET x == next_x_translation_no_geometry(current_x_translation,
                                                prev_length, spacing)
       IN  /\ current_x_translation' = x
           /\ model_xform' = [model_xform EXCEPT ![merge_i] = Xform(x, 0, 0)]
    /\ merge_i' = merge_i + 1
    /\ UNCHANGED <<prev_length, model_length, max_height, max_width>>
    /\ UNCHANGED <<merge_args, merge_top_vars, merge_pc>>
    /\ UNCHANGED not_merge_vars

\* lines 139-149, 158-161: the bounding box is read and the model translated
merge_place ==
    /\ merge_pc = "loop"
    /\ merge_i <= Len(input_files)
    /\ input_files[merge_i].kind = "ok"
    /\ LET f == input_files[merge_i]
           x == next_x_translation(current_x_translation, prev_length,
                                   f.length, spacing)
       IN  /\ model_length' = Bound(f.length)
           /\ max_height' = Max(max_height, f.height)
           /\ max_width' = Max(max_width, f.width)
           /\ current_x_translation' = x
           /\ prev_length' = f.length
           /\ model_xform' = [model_xform EXCEPT ![merge_i] = Xform(x, 0, 0)]
    /\ merge_i' = merge_i + 1
    /\ UNCHANGED <<merge_args, merge_top_vars, merge_pc>>
    /\ UNCHANGED not_merge_vars

\* line 166, model_length was assigned by some iteration
merge_total_length_step ==
    /\ merge_pc = "loop"
    /\ merge_i > Len(input_files)
    /\ model_length.bound
    /\ merge_total' = merge_total_length(current_x_translation,
                                         model_length.v)
    /\ merge_pc' = "top"
    /\ UNCHANGED <<top_outcome, length_scale, width_scale, top_model_xform>>
    /\ UNCHANGED <<merge_args, merge_loop_vars>>
    /\ UNCHANGED not_merge_vars

\* line 166, model_length was never assigned: the read raises
\* UnboundLocalError, outside of every try block
merge_total_length_unbound ==
    /\ merge_pc = "loop"
    /\ merge_i > Len(input_files)
    /\ ~model_length.bound
    /\ merge_pc' = "UnboundLocalError"
    /\ UNCHANGED <<merge_args, merge_loop_vars, merge_top_vars>>
    /\ UNCHANGED not_merge_vars

\* lines 168, 199-203: the top file does not exist
merge_top_absent ==
    /\ merge_pc = "top"
    /\ top_file.kind = "absent"
    /\ top_outcome' = "no_file"
    /\ merge_pc' = "saved"
    /\ UNCHANGED <<merge_total, length_scale, width_scale, top_model_xform>>
    /\ UNCHANGED <<merge_args, merge_loop_vars>>
    /\ UNCHANGED not_merge_vars

\* lines 168-182, 197-203: the top file has no boundable prim
merge_top_no_geometry ==
    /\ merge_pc = "top"
    /\ top_file.kind = "no_geometry"
    /\ top_outcome' = "no_geometry"
    /\ merge_pc' = "saved"
    /\ UNCHANGED <<merge_total, length_scale, width_scale, top_model_xform>>
    /\ UNCHANGED <<merge_args, merge_loop_vars>>
    /\ UNCHANGED not_merge_vars

\* lines 182-190, 205-206: one of the two divisions is by zero; the
\* ZeroDivisionError is caught and printed, nothing is saved
merge_top_zero_division ==
    /\ merge_pc = "top"
    /\ top_file.kind = "ok"
    /\ \/ length_scale_of(merge_total, spacing, top_file.length).den = 0
       \/ width_scale_of(max_width, top_file.width).den = 0
    /\ top_outcome' = "exception"
    /\ merge_pc' = "returned"
    /\ UNCHANGED <<merge_total, length_scale, width_scale, top_model_xform>>
    /\ UNCHANGED <<merge_args, merge_loop_vars>>
    /\ UNCHANGED not_merge_vars

\* lines 182-196, 202-203: the top is translated and scaled
merge_top_fit ==
    /\ merge_pc = "top"
    /\ top_file.kind = "ok"
    /\ length_scale_of(merge_total, spacing, top_file.length).den # 0
    /\ width_scale_of(max_width, top_file.width).den # 0
    /\ length_scale' = length_scale_of(merge_total, spacing, top_file.length)
    /\ width_scale' = width_scale_of(max_width, top_file.width)
    /\ LET t == merge_top_translation(merge_total, spacing, max_height,
                                      top_file.height)
       IN  top_model_xform' = Xform(t[1], t[2], t[3])
    /\ top_outcome' = "fitted"
    /\ merge_pc' = "saved"
    /\ UNCHANGED merge_total
    /\ UNCHANGED <<merge_args, merge_loop_vars>>
    /\ UNCHANGED not_merge_vars

MergeNext ==
    \/ merge_skip_absent
    \/ merge_bounds_raise
    \/ merge_no_geometry
    \/ merge_place
    \/ merge_total_length_step
    \/ merge_total_length_unbound
    \/ merge_top_absent
    \/ merge_top_no_geometry
    \/ merge_top_zero_division
    \/ merge_top_fit

SpecMerge == MergeInit /\ [][MergeNext]_vars

----------------------------------------------------------------------------
(* retrieval_utils.py : calculate_rear_panels_constrained *)

ModuleA == 750
ModuleB == 1000

a_max_floor(L) == L \div ModuleA
a_max(L) == (L + 749) \div ModuleA

b_max(L) == (L + 999) \div ModuleB

Config_negated(a, b, L) == [none |-> FALSE, a |-> a, b |-> b,
                            spacing |-> L - (a * ModuleA + b * ModuleB)]
Config(a, b, L) == [none |-> FALSE, a |-> a, b |-> b,
                    spacing |-> a * ModuleA + b * ModuleB - L]

covers_strict(a, b, L) == a * ModuleA + b * ModuleB > L
covers(a, b, L) == a * ModuleA + b * ModuleB >= L

\* the (a, b) pairs in the order of the two nested for clauses, a outermost
grid(L) ==
    LET nb == b_max(L) + 1
        n  == (a_max(L) + 1) * nb
    IN  [k \in 1..n |-> <<(k - 1) \div nb, (k - 1) % nb>>]

\* the list comprehension: the covering pairs, in iteration order
candidates(L) ==
    LET keep(p) == covers(p[1], p[2], L)
        kept == SelectSeq(grid(L), keep)
    IN  [k \in 1..Len(kept) |-> Config(kept[k][1], kept[k][2], L)]

\* Python's min(seq, key=...) returns the first element that attains the
\* minimum
min_by_spacing_last(c) ==
    c[CHOOSE i \in 1..Len(c) :
        /\ \A j \in 1..Len(c) : c[j].spacing >= c[i].spacing
        /\ \A j \in (i + 1)..Len(c) : c[j].spacing > c[i].spacing]
min_by_spacing(c) ==
    c[CHOOSE i \in 1..Len(c) :
        /\ \A j \in 1..Len(c) : c[j].spacing >= c[i].spacing
        /\ \A j \in 1..(i - 1) : c[j].spacing > c[i].spacing]

calculate_rear_panels_constrained(L) ==
    IF candidates(L) = <<>>
    THEN NoneConfig
    ELSE min_by_spacing(candidates(L))

SolverInit ==
    /\ L_cabinet \in 0..MaxL
    /\ best_config = NoneConfig
    /\ solver_pc = "call"
    /\ AsmIdle
    /\ MergeIdle
    /\ OthersIdle

SolverCall ==
    /\ solver_pc = "call"
    /\ best_config' = calculate_rear_panels_constrained(L_cabinet)
    /\ solver_pc' = "returned"
    /\ UNCHANGED L_cabinet
    /\ UNCHANGED not_solver_vars

SolverNext == SolverCall

SpecSolver == SolverInit /\ [][SolverNext]_vars

----------------------------------------------------------------------------
(* main.py : steps 2, 4 and 6 of main; retrieval_utils.py : width_cabinet *)

\* What becomes of a requested cabinet:
\*   "no_filepath"  retrieve_modules returns nothing or raises: filepath None
\*   "absent"       width_cabinet: os.path.exists is false
\*   "raises"       width_cabinet: an exception inside the try block
\*   "no_geometry"  width_cabinet: no prim at /<name>/geometry
\*   "ok"           width_cabinet appends the width of the extent
MeasuredWidths == {4000, 4004, 6000}
RequestedCabinet(k, w) == [kind |-> k, width |-> w]
RequestedCabinetSet ==
    {RequestedCabinet(k, 0) :
        k \in {"no_filepath", "absent", "raises", "no_geometry"}}
        \cup {RequestedCabinet("ok", w) : w \in MeasuredWidths}
RequestedCabinetLists ==
    UNION {[1..n -> RequestedCabinetSet] : n \in 0..MaxRequested}

\* sum(cabinet_widths)
RECURSIVE sum_list(_)
sum_list(ws) == IF ws = <<>> THEN 0 ELSE ws[1] + sum_list(Tail(ws))

\* [construct_file_path(c['filepath']) for c in cabinets if c['filepath']]
has_filepath(c) == c.kind # "no_filepath"
filepaths_of(cabs) == SelectSeq(cabs, has_filepath)

\* 'number_of_cabinets': len(cabinets)
number_of_cabinets(cabs, widths) == Len(cabs)

PipeInit ==
    /\ pipe_cabinets \in RequestedCabinetLists
    /\ cabinet_filepaths = <<>>
    /\ pipe_i = 0
    /\ cabinet_widths = <<>>
    /\ panels_config = NoneConfig
    /\ metadata = NoMetadata
    /\ pipe_pc = "retrieve"
    /\ SolverIdle
    /\ AsmIdle
    /\ MergeIdle
    /\ ValIdle
    /\ PanelsIdle
    /\ GridIdle
    /\ ParseIdle

\* step 2 and the first line of step 4: every cabinet has its 'filepath'
\* set or None, the paths that are set are handed to width_cabinet
retrieve_cabinets ==
    /\ pipe_pc = "retrieve"
    /\ cabinet_filepaths' = filepaths_of(pipe_cabinets)
    /\ pipe_pc' = "measure"
    /\ UNCHANGED <<pipe_cabinets, pipe_i, cabinet_widths, panels_config,
                   metadata>>
    /\ UNCHANGED not_pipe_vars

\* width_cabinet: the file does not exist, an exception, or no geometry
\* prim; nothing is appended
width_cabinet_skip ==
    /\ pipe_pc = "measure"
    /\ pipe_i < Len(cabinet_filepaths)
    /\ cabinet_filepaths[pipe_i + 1].kind # "ok"
    /\ pipe_i' = pipe_i + 1
    /\ UNCHANGED <<pipe_cabinets, cabinet_filepaths, cabinet_widths,
                   panels_config, metadata, pipe_pc>>
    /\ UNCHANGED not_pipe_vars

\* width_cabinet: length_of_cabinets.append(model_width)
width_cabinet_append ==
    /\ pipe_pc = "measure"
    /\ pipe_i < Len(cabinet_filepaths)
    /\ cabinet_filepaths[pipe_i + 1].kind = "ok"
    /\ cabinet_widths' =
          Append(cabinet_widths, cabinet_filepaths[pipe_i + 1].width)
    /\ pipe_i' = pipe_i + 1
    /\ UNCHANGED <<pipe_cabinets, cabinet_filepaths, panels_config, metadata,
                   pipe_pc>>
    /\ UNCHANGED not_pipe_vars

\* steps 4 and 6: total_cabinet_width = round(sum(cabinet_widths) * 1000),
\* the solver, and the metadata
write_metadata ==
    /\ pipe_pc = "measure"
    /\ pipe_i = Len(cabinet_filepaths)
    /\ LET total == round_mm(sum_list(cabinet_widths))
           config == calculate_rear_panels_constrained(total)
       IN  /\ panels_config' = config
           /\ metadata' =
                 [written |-> TRUE, W_tot_cabinets |-> total,
                  spacing |-> config.spacing,
                  number_of_cabinets |->
                      number_of_cabinets(pipe_cabinets, cabinet_widths)]
    /\ pipe_pc' = "done"
    /\ UNCHANGED <<pipe_cabinets, cabinet_filepaths, pipe_i, cabinet_widths>>
    /\ UNCHANGED not_pipe_vars

PipeNext ==
    \/ retrieve_cabinets
    \/ width_cabinet_skip
    \/ width_cabinet_append
    \/ write_metadata

SpecPipeline == PipeInit /\ [][PipeNext]_vars

----------------------------------------------------------------------------
(* Claims about the panel solver *)

Overshoot(a, b, L) == a * ModuleA + b * ModuleB - L

\* how far beyond the enumerated bounds the comparison pairs range
Beyond == 2

\* C1: the returned configuration covers L, its spacing is the overshoot,
\* and no pair of non-negative integers, inside or outside the enumerated
\* bounds, covers L with a smaller overshoot.
C1_SolverMinimal ==
    solver_pc = "returned" =>
        /\ ~best_config.none
        /\ best_config.a >= 0 /\ best_config.b >= 0
        /\ best_config.a * ModuleA + best_config.b * ModuleB >= L_cabinet
        /\ best_config.spacing =
               best_config.a * ModuleA + best_config.b * ModuleB - L_cabinet
        /\ \A a2 \in 0..(a_max(L_cabinet) + Beyond) :
             \A b2 \in 0..(b_max(L_cabinet) + Beyond) :
                Overshoot(a2, b2, L_cabinet) >= 0
                    => Overshoot(a2, b2, L_cabinet) >= best_config.spacing

\* a length whose optimum needs both modules: 2500 = 2 * 750 + 1000
C1_Witness ==
    /\ solver_pc = "returned"
    /\ L_cabinet = 2500
    /\ best_config.a = 2 /\ best_config.b = 1 /\ best_config.spacing = 0

\* C2: among the pairs that attain the minimal overshoot the solver returns
\* the one with the smallest a and, among those, the smallest b.
C2_SolverTieBreak ==
    solver_pc = "returned" =>
        \A a2 \in 0..(a_max(L_cabinet) + Beyond) :
          \A b2 \in 0..(b_max(L_cabinet) + Beyond) :
            (/\ Overshoot(a2, b2, L_cabinet) >= 0
             /\ Overshoot(a2, b2, L_cabinet) = best_config.spacing)
                => \/ best_config.a < a2
                   \/ (best_config.a = a2 /\ best_config.b <= b2)

\* 3000 = 3 * 1000 = 4 * 750: two optimal pairs, the one with a = 0 wins
C2_Witness ==
    /\ solver_pc = "returned"
    /\ L_cabinet = 3000
    /\ Overshoot(4, 0, L_cabinet) = 0
    /\ best_config.a = 0 /\ best_config.b = 3

\* C3: the returned overshoot is never negative, and a required length of 0
\* yields a = 0, b = 0, overshoot 0.
C3_SolverNonNegative ==
    solver_pc = "returned" =>
        /\ ~best_config.none
        /\ best_config.spacing >= 0
        /\ (L_cabinet = 0 =>
                best_config.a = 0 /\ best_config.b = 0
                    /\ best_config.spacing = 0)

C3_Witness ==
    /\ solver_pc = "returned"
    /\ L_cabinet = 0
    /\ best_config.a = 0 /\ best_config.b = 0 /\ best_config.spacing = 0

\* C4: the bounded enumeration always contains a covering pair, so the
\* solver never returns None for a non-negative length.
C4_SolverFeasible ==
    /\ \E k \in 1..Len(grid(L_cabinet)) :
          covers(grid(L_cabinet)[k][1], grid(L_cabinet)[k][2], L_cabinet)
    /\ candidates(L_cabinet) # <<>>
    /\ (solver_pc = "returned" => ~best_config.none)

\* a length below both modules, where only the ceiling in the bounds makes
\* a covering pair available
C4_Witness ==
    /\ solver_pc = "returned"
    /\ L_cabinet = 1
    /\ ~best_config.none
    /\ best_config.a = 1 /\ best_config.b = 0
    /\ best_config.spacing = 749

----------------------------------------------------------------------------
(* Claims about the sequencer and the top placement *)

Placed == {i \in 1..Len(cabinet_xform) : cabinet_xform[i].placed}

Offset(i) == cabinet_xform[i].t[1]
LeftEdge(i) == Offset(i) - Half(cabinets[i][1])
RightEdge(i) == Offset(i) + Half(cabinets[i][1])

\* C5: the first component of the list is placed at offset 0, every later
\* component i at offset(i-1) + width(i-1)/2 + width(i)/2, and the other two
\* translation coordinates are 0.
C5_SequencerRule ==
    \A i \in Placed :
        /\ cabinet_xform[i].t[2] = 0
        /\ cabinet_xform[i].t[3] = 0
        /\ (i = 1 => Offset(i) = 0)
        /\ (i > 1 /\ (i - 1) \in Placed =>
               Offset(i) = Offset(i - 1) + Half(cabinets[i - 1][1])
                               + Half(cabinets[i][1]))

\* three cabinets of positive width, all placed, the loop finished
C5_Witness ==
    /\ asm_pc = "top"
    /\ Len(cabinets) = 3
    /\ Placed = {1, 2, 3}
    /\ cabinets[1][1] = 16 /\ cabinets[2][1] = 8 /\ cabinets[3][1] = 16
    /\ Offset(1) = 0 /\ Offset(2) = 12 /\ Offset(3) = 24

\* C6: the intervals [offset - w/2, offset + w/2] of the placed components
\* never overlap, those of consecutive placed components share exactly
\* their boundary point, and the returned total is offset_n + w_n/2 of the
\* last placed component.
C6_SequencerNoOverlap ==
    /\ \A i \in Placed : \A j \in Placed :
          i < j =>
            /\ RightEdge(i) <= LeftEdge(j)
            /\ ((\A k \in Placed : ~(i < k /\ k < j))
                    => RightEdge(i) = LeftEdge(j))
    /\ (asm_pc \in {"top", "saved"} /\ Placed # {} =>
          LET n == CHOOSE m \in Placed : \A k \in Placed : k <= m
          IN  total_cabinet_width = RightEdge(n))

C6_Witness ==
    /\ asm_pc = "saved"
    /\ Cardinality(Placed) >= 2
    /\ \A i \in Placed : cabinets[i][1] > 0
    /\ total_cabinet_width > 0

\* C7: an empty list gives total length 0 and no placement; a list of one
\* component (its prim on the stage) gives a single placement at offset 0.
C7_SequencerEdgeCases ==
    asm_pc \in {"top", "saved"} =>
        /\ (Len(cabinets) = 0 =>
               total_cabinet_width = 0 /\ Placed = {})
        /\ (Len(cabinets) = 1 /\ 1 \in cabinet_prims =>
               Placed = {1} /\ cabinet_xform[1].t = <<0, 0, 0>>)

C7_Witness ==
    /\ asm_pc = "saved"
    /\ Len(cabinets) = 1
    /\ cabinets[1][1] = 16
    /\ Placed = {1}
    /\ Offset(1) = 0

\* C9: after apply_transformation the interval [tx - W/2, tx + W/2] of the
\* top equals the extent of the run, from the leading edge of the first
\* cabinet to the trailing edge of the last one.
C9_TopCoversRun ==
    (/\ asm_pc = "saved"
     /\ top_xform.placed
     /\ Len(cabinets) >= 1
     /\ Placed = 1..Len(cabinets)) =>
        /\ top_xform.t[1] - Half(workbench_top[1]) = LeftEdge(1)
        /\ top_xform.t[1] + Half(workbench_top[1])
               = RightEdge(Len(cabinets))

----------------------------------------------------------------------------
(* Claims about the top fitted by merge_usda_files *)

\* C8: once the top is fitted, its scaled primary-axis extent equals the run
\* length: length_scale * top_length = total_length, for top_length > 0.
C8_TopScaledExtent ==
    (/\ merge_pc = "saved"
     /\ top_outcome = "fitted"
     /\ top_file.length > 0) =>
        length_scale.num * top_file.length = merge_total * length_scale.den

\* C10: a top whose length is zero or negative is never given a scale or a
\* translation; the fitting step fails instead.
C10_DegenerateTop ==
    (/\ merge_pc \in {"saved", "returned"}
     /\ top_file.kind = "ok"
     /\ top_file.length <= 0) =>
        /\ top_outcome # "fitted"
        /\ ~top_model_xform.placed

----------------------------------------------------------------------------
(* Claims about the consistency checks and the derived lengths *)

TopWarnings(ws) == {k \in 1..Len(ws) : ws[k].kind = "top_length"}
HomogeneityWarnings(ws) ==
    {k \in 1..Len(ws) : ws[k].kind \in {"height", "depth"}}

CheckStep == asm_pc \in {"model", "assigned"} /\ asm_pc' = "checked"

\* C11: once check_consistency has returned, the width of the top and the
\* total length of the cabinets round to the same number of millimetres.
C11_LengthsAgreeAfterCheck ==
    asm_pc = "checked" =>
        round_mm(workbench_top[1]) = round_mm(total_length(cabinets))

\* C12: check_consistency emits the top-length warning exactly when the
\* rounded millimetre values differ, and whenever it emits it the width of
\* the top becomes the total length of the cabinets.
C12_TopWarningAndRepair ==
    [][CheckStep =>
         /\ (TopWarnings(warnings') # {}
                <=> round_mm(total_length(cabinets))
                        # round_mm(workbench_top[1]))
         /\ (TopWarnings(warnings') # {}
                => workbench_top'[1] = total_length(cabinets'))]_vars

DiffersInHeight(cabs) ==
    {k \in 2..Len(cabs) : cabs[k][2] # cabs[1][2]}
DiffersInDepth(cabs) ==
    {k \in 2..Len(cabs) : cabs[k][3] # cabs[1][3]}

\* C13: the cabinets after the first are compared with the first one only:
\* there is one warning per later cabinet whose height differs from the
\* first's and one per later cabinet whose depth differs from the first's;
\* an empty or single-cabinet run has none.
C13_HomogeneityAgainstFirst ==
    asm_pc = "checked" =>
        /\ Cardinality(HomogeneityWarnings(warnings))
              = Cardinality(DiffersInHeight(cabinets))
                    + Cardinality(DiffersInDepth(cabinets))
        /\ Len(cabinets) <= 1
              => HomogeneityWarnings(warnings) = {}

\* the second and third cabinet agree with each other but not with the first
C13_Witness ==
    /\ asm_pc = "checked"
    /\ Len(cabinets) = 3
    /\ cabinets[1][2] = 8 /\ cabinets[2][2] = 16 /\ cabinets[3][2] = 16
    /\ DiffersInDepth(cabinets) = {}
    /\ Cardinality(HomogeneityWarnings(warnings)) = 2

\* C14: when only the second cabinet of the run differs in height from the
\* first and all depths agree, there is exactly one homogeneity warning and
\* it references index 2.
C14_SecondCabinetIndex ==
    (/\ asm_pc = "checked"
     /\ DiffersInHeight(cabinets) = {2}
     /\ DiffersInDepth(cabinets) = {}) =>
        /\ Cardinality(HomogeneityWarnings(warnings)) = 1
        /\ \A k \in HomogeneityWarnings(warnings) : warnings[k].index = 2

\* C15: check_consistency changes nothing except the width of the top: the
\* cabinets, the other two dimensions of the top and its name, asset path,
\* function, type, colour and material stay as they were.
C15_CheckFrame ==
    [][CheckStep =>
         /\ cabinets' = cabinets
         /\ workbench_top'[2] = workbench_top[2]
         /\ workbench_top'[3] = workbench_top[3]
         /\ top_meta' = top_meta]_vars

\* a run of heterogeneous heights whose top was assigned a width far from
\* the total and has been corrected by the check
C15_Witness ==
    /\ asm_pc = "checked"
    /\ TopWarnings(warnings) # {}
    /\ DiffersInHeight(cabinets) # {}
    /\ Len(cabinets) = 3
    /\ total_length(cabinets) = 40
    /\ workbench_top[1] = 40

WidthCount(cabs, w) == Cardinality({k \in 1..Len(cabs) : cabs[k][1] = w})

RECURSIVE WeightedCount(_, _)
WeightedCount(cabs, ws) ==
    IF ws = {} THEN 0
    ELSE LET w == CHOOSE x \in ws : TRUE
         IN  w * WidthCount(cabs, w) + WeightedCount(cabs, ws \ {w})

----------------------------------------------------------------------------
(* Claims about the panel rows and the panel matrix *)

LengthCount(panels, l) ==
    Cardinality({k \in 1..Len(panels) : panels[k] = l})

RECURSIVE WeightedLengthCount(_, _)
WeightedLengthCount(panels, ls) ==
    IF ls = {} THEN 0
    ELSE LET l == CHOOSE x \in ls : TRUE
         IN  l * LengthCount(panels, l)
                + WeightedLengthCount(panels, ls \ {l})

\* C17: total_row_length is the sum of the lengths of the panels of the row,
\* and total_matrix_length is the largest total_row_length of the rows, 0
\* for a matrix without rows.
C17_MatrixLength ==
    /\ \A r \in 1..Len(panel_rows) :
          total_row_length(panel_rows[r])
              = WeightedLengthCount(panel_rows[r], PanelLengths)
    /\ panels_pc = "read" =>
          /\ (panel_rows = <<>> => matrix_length = 0)
          /\ (panel_rows # <<>> =>
                /\ \A r \in 1..Len(panel_rows) :
                      matrix_length >= total_row_length(panel_rows[r])
                /\ \E r \in 1..Len(panel_rows) :
                      matrix_length = total_row_length(panel_rows[r]))

\* a short row before a long one
C17_Witness ==
    /\ panels_pc = "read"
    /\ Len(panel_rows) = 2
    /\ panel_rows[1] = <<750>>
    /\ panel_rows[2] = <<1000, 750>>
    /\ matrix_length = 1750

----------------------------------------------------------------------------
(* Claims about the panel grid *)

\* the X interval a placed panel covers, and whether two of them overlap
PanelLeft(p) == p.x
PanelRight(p) == p.x + p.width
Overlap(p, q) == PanelLeft(p) < PanelRight(q) /\ PanelLeft(q) < PanelRight(p)

\* C18: no two panels placed in the same row have overlapping X intervals,
\* for every list of panel types, every quantity list, rows >= 1 and
\* spacing >= 0.
C18_NoOverlapInRow ==
    \A i, j \in 1..Len(panel_xform) :
        (i # j /\ panel_xform[i].row = panel_xform[j].row)
            => ~Overlap(panel_xform[i], panel_xform[j])

\* no panel is asked for: no pair of the zip, or every quantity is 0
NoPanelRequested == \A k \in 1..zip_length : quantities[k] = 0

\* C19: when the panel list is empty or every quantity is zero the grid
\* builder returns, and the total length it reports is 0, for every
\* spacing >= 0.
C19_EmptyGridLengthZero ==
    (grid_pc = "returned" /\ NoPanelRequested) => grid_result[1] = 0

----------------------------------------------------------------------------
(* Claims about create_assembly *)

LookupFails(k) == cabinet_paths[k].kind # "ok"
IsResolved(p) == p.kind = "ok"

\* the dimensions of the resolved cabinets, in the order of the paths
ResolvedCabinets ==
    LET ok == SelectSeq(cabinet_paths, IsResolved)
    IN  [k \in 1..Len(ok) |-> ok[k].dimensions]

OneOfThreeFails ==
    /\ Len(cabinet_paths) = 3
    /\ Cardinality({k \in 1..3 : LookupFails(k)}) = 1

\* C20: when the lookup fails for one of three cabinets, create_assembly
\* still returns an assembly; its cabinets are exactly the two resolved
\* ones in their original order and total_length is the sum of their two
\* widths.
C20_FailedLookupSkipped ==
    (OneOfThreeFails /\ parse_pc \in {"returned", "raised"}) =>
        /\ parse_pc = "returned"
        /\ parsed_cabinets = ResolvedCabinets
        /\ Len(parsed_cabinets) = 2
        /\ total_length(parsed_cabinets)
              = parsed_cabinets[1][1] + parsed_cabinets[2][1]

\* two placements of one panel type that follow each other in one row
ConsecutiveInRow(p, q) ==
    /\ p.file = q.file
    /\ p.row = q.row
    /\ q.col = p.col + 1

\* C21: in one row, the X distance between the placements of consecutive
\* panels of a type is panel_width + spacing, the edge-to-edge rule of the
\* sequencer.
C21_EdgeToEdgeInRow ==
    \A i, j \in 1..Len(panel_xform) :
        ConsecutiveInRow(panel_xform[i], panel_xform[j])
            => panel_xform[j].x - panel_xform[i].x
                   = panel_xform[i].width + grid_spacing

\* the largest of a set of widths, 0.0 when nothing has been placed
SetMax(S) == IF S = {} THEN 0 ELSE CHOOSE m \in S : \A x \in S : x <= m

\* the widths of the panels placed before the row of panel i was begun
WidthsBeforeRowOf(i) ==
    {panel_xform[j].width : j \in {k \in 1..(i - 1) :
        \/ panel_xform[k].file # panel_xform[i].file
        \/ panel_xform[k].row # panel_xform[i].row}}

\* C22: a panel of row r lies on the secondary axis at
\* r * (previous_row_max_width + spacing), previous_row_max_width being the
\* largest panel width among the rows produced before; row 0 lies at 0.
C22_RowOffset ==
    \A i \in 1..Len(panel_xform) :
        panel_xform[i].y
            = panel_xform[i].row
                  * (SetMax(WidthsBeforeRowOf(i)) + grid_spacing)

\* second type narrower than the first: its row 1 is offset by the width of
\* the first type
C22_Witness ==
    /\ grid_pc = "returned"
    /\ grid_spacing = 80
    /\ \E i \in 1..Len(panel_xform) :
          /\ panel_xform[i].row = 1
          /\ panel_xform[i].width = 6000
          /\ panel_xform[i].y = 8080

\* the (type, row, column) positions of the row pattern
PatternCells ==
    {<<panel_xform[i].file, panel_xform[i].row, panel_xform[i].col>> :
        i \in 1..Len(panel_xform)}

\* the stacking-axis translation of a panel of width w in layer k
LayerOffset(k, w) == g_max_height + w + k * 2 * w

\* C23: the grid builder accepts a layer count, and for layers > 1 every
\* layer k repeats the row pattern, its panels translated along the
\* stacking axis by max_height + panel_width + k * 2 * panel_width.
C23_LayersRepeatPattern ==
    (layers.passed /\ layers.n > 1 /\ grid_pc \in {"returned", "raised"}) =>
        /\ grid_pc = "returned"
        /\ \A k \in 0..(layers.n - 1) : \A c \in PatternCells :
              \E i \in 1..Len(panel_xform) :
                  /\ <<panel_xform[i].file, panel_xform[i].row,
                       panel_xform[i].col>> = c
                  /\ panel_xform[i].z = LayerOffset(k, panel_xform[i].width)

----------------------------------------------------------------------------
(* Claims about the height of the top *)

\* merge_usda_files: the components that were given a translation and have
\* a measured height
MergePlacedHeights ==
    {input_files[i].height : i \in {k \in 1..Len(input_files) :
        model_xform[k].placed /\ input_files[k].kind = "ok"}}

TopAboveMerged ==
    top_model_xform.placed =>
        \A h \in MergePlacedHeights : top_model_xform.t[3] >= h

TopAboveSequenced ==
    (asm_pc = "saved" /\ top_xform.placed) =>
        \A i \in Placed : top_xform.t[3] >= cabinets[i][2]

\* C24: the third translation coordinate of the top is at least the largest
\* height of the placed cabinets, in merge_usda_files and in
\* apply_transformation.
C24_TopAboveTallest == TopAboveMerged /\ TopAboveSequenced

----------------------------------------------------------------------------
(* Further claims about the panel solver *)

\* C25: for every required length L >= 0 the returned overshoot is below
\* 750, the smaller module, and below 250 whenever L > 1250.
C25_OvershootBounds ==
    solver_pc = "returned" =>
        /\ ~best_config.none
        /\ best_config.spacing < ModuleA
        /\ (L_cabinet > 1250 => best_config.spacing < 250)

\* the first length above 1250, covered by two modules of 750
C25_Witness ==
    /\ solver_pc = "returned"
    /\ L_cabinet = 1251
    /\ best_config.a = 2
    /\ best_config.b = 0
    /\ best_config.spacing = 249

----------------------------------------------------------------------------
(* Further claims about the sequencer *)

AllPrimsExist == cabinet_prims = 1..Len(cabinets)

KeptIndices ==
    LET on_stage(i) == i \in cabinet_prims
    IN  SelectSeq([i \in 1..Len(cabinets) |-> i], on_stage)
KeptCabinets == [k \in 1..Len(KeptIndices) |-> cabinets[KeptIndices[k]]]

\* sequencing the first n cabinets of a list whose prims all exist
RECURSIVE SequencedPrefix(_, _)
SequencedPrefix(cabs, n) ==
    IF n = 0 THEN [offsets |-> <<>>, cur |-> 0, prev |-> 0]
    ELSE LET r == SequencedPrefix(cabs, n - 1)
             x == x_position(n, r.cur, r.prev, cabs[n][1])
         IN  [offsets |-> Append(r.offsets, x), cur |-> x,
              prev |-> next_previous_half_width(cabs[n][1])]
Sequenced(cabs) == SequencedPrefix(cabs, Len(cabs))

\* C27: when sequence_cabinets skips the cabinets whose prim is not found,
\* the offsets of the remaining cabinets and the returned total are those
\* of sequencing the list without the missing cabinets; the first cabinet
\* actually placed is at offset 0.
C27_SkipIsTransparent ==
    asm_pc \in {"top", "saved"} =>
        LET ref == Sequenced(KeptCabinets)
        IN  /\ \A k \in 1..Len(KeptIndices) :
                  /\ cabinet_xform[KeptIndices[k]].placed
                  /\ Offset(KeptIndices[k]) = ref.offsets[k]
            /\ total_cabinet_width = total_width(ref.cur, ref.prev)
            /\ (KeptIndices # <<>> => Offset(KeptIndices[1]) = 0)

----------------------------------------------------------------------------
(* Further claims about the AssemblyModel *)

\* the step in which the after-validator of the constructor runs
ConstructStep == asm_pc = "new" /\ asm_pc' = "model"

\* C28: a constructed AssemblyModel has its top within 0.001 of the cabinet
\* total length: the width of the top was set to exactly the total length
\* when the two differed by more than 1 mm and was left untouched otherwise,
\* and a further call of adjust_workbench_top changes nothing.
C28_ConstructedTopFits ==
    [][ConstructStep =>
          /\ Abs(workbench_top'[1] - total_length(cabinets')) <= Tolerance
          /\ (Abs(workbench_top[1] - total_length(cabinets)) > Tolerance
                 => workbench_top' = <<total_length(cabinets),
                                       workbench_top[2], workbench_top[3]>>)
          /\ (Abs(workbench_top[1] - total_length(cabinets)) <= Tolerance
                 => workbench_top' = workbench_top)
          /\ adjust_workbench_top(cabinets', workbench_top') = workbench_top'
      ]_vars

\* a top of width 40 ticks is not among the constructor arguments: it was
\* set by the validator
C28_Witness ==
    /\ asm_pc = "model"
    /\ total_length(cabinets) = 40
    /\ workbench_top[1] = 40

----------------------------------------------------------------------------
(* Claims about the metadata of the pipeline *)

\* C29: number_of_cabinets is the number of cabinets whose widths were
\* summed into W_tot_cabinets, and spacing is the overshoot of the solver
\* for W_tot_cabinets, also when retrieval or measuring failed for some
\* requested cabinet.
C29_MetadataCountsMeasured ==
    pipe_pc = "done" =>
        /\ metadata.number_of_cabinets = Len(cabinet_widths)
        /\ metadata.W_tot_cabinets = round_mm(sum_list(cabinet_widths))
        /\ metadata.spacing
              = panels_config.a * ModuleA + panels_config.b * ModuleB
                    - metadata.W_tot_cabinets

----------------------------------------------------------------------------
(* Further claims about merge_usda_files *)

\* the components whose extent was read
Measured == {i \in 1..Len(input_files) : input_files[i].kind = "ok"}
LastMeasured == CHOOSE i \in Measured : \A j \in Measured : j <= i
EveryFileMissing ==
    \A i \in 1..Len(input_files) : input_files[i].kind = "absent"

\* C30: once the loop over the input files has ended, merge_usda_files has
\* a total length and goes on to the top: the total is 0 when the list is
\* empty or every file is missing, and otherwise the length added to the
\* last translation is that of the last component placed with a length.
C30_TotalLengthDefined ==
    merge_pc # "loop" =>
        /\ merge_pc # "UnboundLocalError"
        /\ (EveryFileMissing => merge_total = 0)
        /\ (Measured # {} =>
               merge_total = current_x_translation
                                 + input_files[LastMeasured].length)

====
